---- MODULE Spec2Model ----
(***************************************************************************)
(* A model of the macro-risk-dashboard scripts:                            *)
(*   scripts/monitor.py                 (risk score, regimes, alerts)      *)
(*   scripts/collect_upbit_volume.py    (daily volume collection)          *)
(*   scripts/backfill_upbit_history.py  (historical volume backfill)       *)
(*                                                                         *)
(* Numbers.  Indicator values are integers in hundredths (4.50 is 450).    *)
(* A sub-score is an integer numerator over SubDen, a risk score an        *)
(* integer numerator over ScoreDen, so the piecewise-linear functions and  *)
(* the weighted sum are computed exactly; the comparison score < 0.30 is   *)
(* score * 100 < 30 * ScoreDen.  The Python code computes in IEEE doubles; *)
(* the model's arithmetic is the exact rational one.                       *)
(*                                                                         *)
(* Optional values.  Python's None is the empty sequence <<>>, a present   *)
(* value v is <<v>>.  A Python dict is a record; the empty dict is <<>>.   *)
(***************************************************************************)
EXTENDS Integers, Sequences, FiniteSets, TLC

VARIABLES
    state,      \* monitor.py: the content of state.json (None: no file)
    run,        \* monitor.py: what the run of main() that just ended read and
                \* did (NoRun between runs)
    clock,      \* monitor.py: the time, as the number of runs started
    file,       \* volume scripts: the content of upbit_volume_history.json
                \* (None: no file), a list of <<date, value>> in file order
    today,      \* volume scripts: the current KST date, as a day number
    job,        \* volume scripts: the running or last-ended script process
    call,       \* a call of a pure function of monitor.py: its arguments
    ret         \* the results of that call (None before it is made)

monVars == <<state, run, clock>>

volVars == <<file, today, job>>

pureVars == <<call, ret>>

vars == <<state, run, clock, file, today, job, call, ret>>

----------------------------------------------------------------------------
(* Optional values and dicts *)

None == <<>>

Some(v) == <<v>>

IsNone(x) == x = <<>>

Val(x) == x[1]

EmptyDict == <<>>

\* dict.get(key, default)
Get(d, key, default) == IF key \in DOMAIN d THEN d[key] ELSE default

\* dict.get(key) of a dict whose stored values are not null
GetOpt(d, key) == IF key \in DOMAIN d THEN Some(d[key]) ELSE None

\* list[-1]
Last(s) == s[Len(s)]

Abs(v) == IF v < 0 THEN -v ELSE v

Max2(a, b) == IF a >= b THEN a ELSE b

Min2(a, b) == IF a <= b THEN a ELSE b

----------------------------------------------------------------------------
(* monitor.py: configuration *)

Indicators == {"t10y2y", "hyOas", "ismPmi", "unrate"}

Regimes == {"riskOn", "neutral", "riskOff", "crisis"}

\* The denominator of a sub-score: (v - 4.0) / 4.0 and the like are exact
\* multiples of 1/SubDen for v in hundredths (lcm of 100, 400, 700, 300).
SubDen == 84 * 100

\* The denominator of a risk score: the weights are hundredths.
ScoreDen == SubDen * 100

\* REGIME_THRESHOLDS, min and max in hundredths
REGIME_THRESHOLDS ==
    [riskOn  |-> [min |-> 0,  max |-> 30,  label |-> "Risk-On"],
     neutral |-> [min |-> 30, max |-> 55,  label |-> "Neutral"],
     riskOff |-> [min |-> 55, max |-> 75,  label |-> "Risk-Off"],
     crisis  |-> [min |-> 75, max |-> 100, label |-> "Crisis"]]

\* score < h/100, score <= h/100, score >= h/100 for a score over ScoreDen
ScoreLt(score, h) == score * 100 < h * ScoreDen

ScoreLe(score, h) == score * 100 <= h * ScoreDen

ScoreGe(score, h) == score * 100 >= h * ScoreDen

\* get_regime_from_score with <= for < at the first band's end
get_regime_from_score_le(score) ==
    IF ScoreLe(score, 30) THEN "riskOn"
    ELSE IF ScoreLt(score, 55) THEN "neutral"
    ELSE IF ScoreLt(score, 75) THEN "riskOff"
    ELSE "crisis"

get_regime_from_score(score) ==
    IF ScoreLt(score, 30) THEN "riskOn"
    ELSE IF ScoreLt(score, 55) THEN "neutral"
    ELSE IF ScoreLt(score, 75) THEN "riskOff"
    ELSE "crisis"

----------------------------------------------------------------------------
(* monitor.py: calculate_risk_score *)

\* fred_data is a record of series, one per indicator; a series is a list of
\* observations, each the optional value of its 'value' key.  An empty series
\* makes series[-1] raise.
HasLatest(fred_data) == \A k \in Indicators : Len(fred_data[k]) > 0

\* fred_data[k][-1]['value']
Latest(fred_data, k) == Last(fred_data[k])

\* score_t10y2y without abs()
score_t10y2y_noabs(v) ==
    IF v >= 0 THEN 0
    ELSE IF v <= -100 THEN SubDen
    ELSE v * (SubDen \div 100)

score_t10y2y(v) ==
    IF v >= 0 THEN 0
    ELSE IF v <= -100 THEN SubDen
    ELSE Abs(v) * (SubDen \div 100)

\* score_hyoas without its upper clamp
score_hyoas_unclamped(v) ==
    IF v <= 400 THEN 0
    ELSE (v - 400) * (SubDen \div 400)

score_hyoas(v) ==
    IF v <= 400 THEN 0
    ELSE IF v >= 800 THEN SubDen
    ELSE (v - 400) * (SubDen \div 400)

score_ismpmi(v) ==
    IF v >= 5000 THEN 0
    ELSE IF v <= 4300 THEN SubDen
    ELSE (5000 - v) * (SubDen \div 700)

score_unrate(v) ==
    IF v <= 400 THEN 0
    ELSE IF v >= 700 THEN SubDen
    ELSE (v - 400) * (SubDen \div 300)

weights == [t10y2y |-> 35, hyOas |-> 30, ismPmi |-> 20, unrate |-> 15]

\* The composite of four non-null values, before the clamp
composite(t10y2y, hyOas, ismPmi, unrate) ==
    score_t10y2y(t10y2y) * weights["t10y2y"] +
    score_hyoas(hyOas) * weights["hyOas"] +
    score_ismpmi(ismPmi) * weights["ismPmi"] +
    score_unrate(unrate) * weights["unrate"]

\* None when a series is empty (the except branch) or a latest value is null
calculate_risk_score(fred_data) ==
    IF ~HasLatest(fred_data) THEN None
    ELSE IF \E k \in Indicators : IsNone(Latest(fred_data, k)) THEN None
    ELSE Some(Max2(0, Min2(ScoreDen,
            composite(Val(Latest(fred_data, "t10y2y")),
                      Val(Latest(fred_data, "hyOas")),
                      Val(Latest(fred_data, "ismPmi")),
                      Val(Latest(fred_data, "unrate"))))))

----------------------------------------------------------------------------
(* monitor.py: alerts.  A message is a tuple naming what it reports. *)

load_state == IF IsNone(state) THEN EmptyDict ELSE Val(state)

\* The outcome of one send under the run's Telegram conditions
send_telegram_message(net) ==
    IF net = "unconfigured" THEN "skipped"
    ELSE IF net = "ok" THEN "sent"
    ELSE "failed"

\* check_tier1_alerts with "not prev_score" for "prev_score is None"
check_tier1_alerts_falsy(current_score, prev_score) ==
    IF IsNone(prev_score) \/ prev_score = Some(0) THEN None
    ELSE LET current_regime == get_regime_from_score(current_score)
             prev_regime == get_regime_from_score(Val(prev_score))
         IN IF current_regime # prev_regime
            THEN Some(<<"regime", prev_regime, current_regime>>)
            ELSE None

check_tier1_alerts(current_score, prev_score) ==
    IF IsNone(prev_score) THEN None
    ELSE LET current_regime == get_regime_from_score(current_score)
             prev_regime == get_regime_from_score(Val(prev_score))
         IN IF current_regime # prev_regime
            THEN Some(<<"regime", prev_regime, current_regime>>)
            ELSE None

\* One threshold check: "alert", "skip", or "raise" when the comparison with a
\* null previous value raises TypeError.  cur and the previous value are optional.
Tier2_t10y2y(cur, prev_indicators) ==
    LET p == Get(prev_indicators, "t10y2y", Some(100)) IN
    IF IsNone(cur) THEN "skip"
    ELSE IF ~(Val(cur) <= 0) THEN "skip"
    ELSE IF IsNone(p) THEN "raise"
    ELSE IF Val(p) > 0 THEN "alert" ELSE "skip"

\* Tier2_hyOas with > for >=
Tier2_hyOas_strict(cur, prev_indicators) ==
    LET p == Get(prev_indicators, "hyOas", Some(0)) IN
    IF IsNone(cur) THEN "skip"
    ELSE IF ~(Val(cur) > 600) THEN "skip"
    ELSE IF IsNone(p) THEN "raise"
    ELSE IF Val(p) < 600 THEN "alert" ELSE "skip"

Tier2_hyOas(cur, prev_indicators) ==
    LET p == Get(prev_indicators, "hyOas", Some(0)) IN
    IF IsNone(cur) THEN "skip"
    ELSE IF ~(Val(cur) >= 600) THEN "skip"
    ELSE IF IsNone(p) THEN "raise"
    ELSE IF Val(p) < 600 THEN "alert" ELSE "skip"

Tier2_ismPmi(cur, prev_indicators) ==
    LET p == Get(prev_indicators, "ismPmi", Some(10000)) IN
    IF IsNone(cur) THEN "skip"
    ELSE IF ~(Val(cur) < 5000) THEN "skip"
    ELSE IF IsNone(p) THEN "raise"
    ELSE IF Val(p) >= 5000 THEN "alert" ELSE "skip"

\* Tier2_unrate with <= for < in the test of the previous value
Tier2_unrate_le(cur, prev_indicators) ==
    LET p == Get(prev_indicators, "unrate", Some(0)) IN
    IF IsNone(cur) THEN "skip"
    ELSE IF ~(Val(cur) >= 450) THEN "skip"
    ELSE IF IsNone(p) THEN "raise"
    ELSE IF Val(p) <= 450 THEN "alert" ELSE "skip"

Tier2_unrate(cur, prev_indicators) ==
    LET p == Get(prev_indicators, "unrate", Some(0)) IN
    IF IsNone(cur) THEN "skip"
    ELSE IF ~(Val(cur) >= 450) THEN "skip"
    ELSE IF IsNone(p) THEN "raise"
    ELSE IF Val(p) < 450 THEN "alert" ELSE "skip"

Tier2Order == <<"t10y2y", "hyOas", "ismPmi", "unrate">>

RECURSIVE Tier2Messages(_, _, _)
\* The alerts list after the checks from position i on: the indicators whose
\* check says "alert", in the order of the checks
Tier2Messages(r, cur, i) ==
    IF i > Len(Tier2Order) THEN <<>>
    ELSE LET k == Tier2Order[i] IN
         (IF r[k] = "alert" THEN << <<"tier2", k, Val(cur[k])>> >> ELSE <<>>)
            \o Tier2Messages(r, cur, i + 1)

check_tier2_alerts(fred_data, prev_state) ==
    IF ~HasLatest(fred_data) THEN <<>>
    ELSE LET cur == [k \in Indicators |-> Latest(fred_data, k)]
             prev_indicators == Get(prev_state, "indicators", EmptyDict)
             r == [t10y2y |-> Tier2_t10y2y(cur["t10y2y"], prev_indicators),
                   hyOas  |-> Tier2_hyOas(cur["hyOas"], prev_indicators),
                   ismPmi |-> Tier2_ismPmi(cur["ismPmi"], prev_indicators),
                   unrate |-> Tier2_unrate(cur["unrate"], prev_indicators)]
         IN IF \E k \in Indicators : r[k] = "raise" THEN <<>>
            ELSE Tier2Messages(r, cur, 1)

\* fg_data is a dict; its 'crypto' entry, when present, is a dict whose 'value'
\* is an optional integer 0..100
check_divergence(risk_score, fg_data) ==
    LET crypto_fg == Get(fg_data, "crypto", None) IN
    IF crypto_fg = None THEN None
    ELSE IF "value" \notin DOMAIN crypto_fg THEN None
    ELSE LET fg_value == crypto_fg["value"] IN
         IF ScoreGe(risk_score, 55) /\ IsNone(fg_value) THEN None
         ELSE IF ScoreGe(risk_score, 55) /\ Val(fg_value) >= 75
              THEN Some(<<"divergence", "Risk-Off", "Extreme Greed">>)
         ELSE IF ScoreLe(risk_score, 30) /\ IsNone(fg_value) THEN None
         ELSE IF ScoreLe(risk_score, 30) /\ Val(fg_value) <= 25
              THEN Some(<<"buy", "Risk-On", "Extreme Fear">>)
         ELSE None

----------------------------------------------------------------------------
(* monitor.py: the inputs of a run *)

\* The number of monitor runs explored
MaxClock == 3

\* A series whose latest observation is x, after an older null observation
Series(x) == <<None, x>>

T10Y2YValues == {-100, 0, 50}

HyOasValues == {400, 600, 800}

IsmPmiValues == {4300, 5000}

UnrateValues == {400, 450}

FredComplete ==
    {[t10y2y |-> Series(Some(t)), hyOas |-> Series(Some(h)),
      ismPmi |-> Series(Some(p)), unrate |-> Series(Some(u))] :
        t \in T10Y2YValues, h \in HyOasValues,
        p \in IsmPmiValues, u \in UnrateValues}

FredBase ==
    [t10y2y |-> Series(Some(-100)), hyOas |-> Series(Some(800)),
     ismPmi |-> Series(Some(4300)), unrate |-> Series(Some(450))]

\* Responses with a null latest value, and one with an empty series
FredBroken ==
    {[FredBase EXCEPT ![k] = Series(None)] : k \in Indicators}
        \cup {[FredBase EXCEPT !["hyOas"] = <<>>]}

FearGreedChoices ==
    {EmptyDict, [crypto |-> [value |-> None]]}
        \cup {[crypto |-> [value |-> Some(v)]] : v \in {25, 50, 75}}

\* What fetch_dashboard_data returns at time now: None when a request raises
DataChoices(now) ==
    {None} \cup
    {Some([fred |-> f, fearGreed |-> g, timestamp |-> now]) :
        f \in FredComplete \cup FredBroken, g \in FearGreedChoices}

NetChoices == {"unconfigured", "ok", "error"}

----------------------------------------------------------------------------
(* monitor.py: main *)

RECURSIVE SendAll_stop_at_failure(_, _, _)
\* SendAll that gives up at the first send that is not delivered
SendAll_stop_at_failure(alerts, net, i) ==
    IF i > Len(alerts) THEN <<>>
    ELSE IF send_telegram_message(net) # "sent"
    THEN << <<"send", alerts[i], send_telegram_message(net)>> >>
    ELSE << <<"send", alerts[i], send_telegram_message(net)>> >>
            \o SendAll_stop_at_failure(alerts, net, i + 1)

RECURSIVE SendAll(_, _, _)
\* for alert in alerts: send_telegram_message(alert), as the events of the run
SendAll(alerts, net, i) ==
    IF i > Len(alerts) THEN <<>>
    ELSE << <<"send", alerts[i], send_telegram_message(net)>> >>
            \o SendAll(alerts, net, i + 1)

\* current_state of main, from the fetched data and its score
current_state(data, risk_score) ==
    [score      |-> risk_score,
     regime     |-> get_regime_from_score(risk_score),
     indicators |-> [k \in Indicators |-> Latest(data["fred"], k)],
     timestamp  |-> data["timestamp"]]

\* The alerts list of main, in the order it is built
main_alerts(data, risk_score, prev_state) ==
    LET tier1_alert == check_tier1_alerts(risk_score, GetOpt(prev_state, "score"))
        tier2_alerts == check_tier2_alerts(data["fred"], prev_state)
        divergence_alert == check_divergence(risk_score, data["fearGreed"])
    IN (IF IsNone(tier1_alert) THEN <<>> ELSE <<Val(tier1_alert)>>)
        \o tier2_alerts
        \o (IF IsNone(divergence_alert) THEN <<>> ELSE <<Val(divergence_alert)>>)

\* save_state that updates the stored dict and keeps its indicators
save_state_update(new_state) ==
    IF IsNone(state) THEN Some(new_state)
    ELSE Some([new_state EXCEPT !.indicators = Val(state)["indicators"]])

\* save_state: the file holds exactly the dict it is given
save_state(new_state) == Some(new_state)

NoRun ==
    [outcome |-> "none", prev_state |-> EmptyDict, data |-> None,
     risk_score |-> None, alerts |-> <<>>, events |-> <<>>, exit |-> 0]

\* main that reports a failed fetch through Telegram before it returns
Main_notify_failure ==
    /\ run = NoRun
    /\ clock < MaxClock
    /\ clock' = clock + 1
    /\ \E loadOk \in BOOLEAN, data \in DataChoices(clock + 1),
          net \in NetChoices, saveOk \in BOOLEAN :
        LET prev_state == load_state
            fred == Val(data)["fred"]
            risk_score == calculate_risk_score(fred)
            alerts == main_alerts(Val(data), Val(risk_score), prev_state)
            r == NoRun
        IN
        IF ~IsNone(state) /\ ~loadOk
        THEN \* json.load raises: uncaught, the interpreter exits 1
             /\ run' = [r EXCEPT !.outcome = "load_error", !.exit = 1]
             /\ state' = state
        ELSE IF IsNone(data)
        THEN \* "Failed to fetch data": return
             /\ run' = [r EXCEPT !.outcome = "fetch_failed",
                                 !.prev_state = prev_state,
                                 !.events = SendAll(<< <<"error">> >>, net, 1)]
             /\ state' = state
        ELSE IF IsNone(risk_score)
        THEN \* "Failed to calculate risk score": return
             /\ run' = [r EXCEPT !.outcome = "no_score",
                                 !.prev_state = prev_state, !.data = data]
             /\ state' = state
        ELSE IF ~saveOk
        THEN \* open(STATE_FILE, 'w') raises after the sends: exit 1
             /\ run' = [r EXCEPT !.outcome = "save_error",
                                 !.prev_state = prev_state, !.data = data,
                                 !.risk_score = risk_score, !.alerts = alerts,
                                 !.events = SendAll(alerts, net, 1),
                                 !.exit = 1]
             /\ state' = state
        ELSE /\ run' = [r EXCEPT !.outcome = "complete",
                                 !.prev_state = prev_state, !.data = data,
                                 !.risk_score = risk_score, !.alerts = alerts,
                                 !.events = SendAll(alerts, net, 1)
                                                \o << <<"save">> >>]
             /\ state' = save_state(current_state(Val(data), Val(risk_score)))
    /\ UNCHANGED <<volVars, pureVars>>

\* One run of main().  loadOk: state.json, when it exists, can be read and
\* parsed; saveOk: state.json can be opened for writing.
Main ==
    /\ run = NoRun
    /\ clock < MaxClock
    /\ clock' = clock + 1
    /\ \E loadOk \in BOOLEAN, data \in DataChoices(clock + 1),
          net \in NetChoices, saveOk \in BOOLEAN :
        LET prev_state == load_state
            fred == Val(data)["fred"]
            risk_score == calculate_risk_score(fred)
            alerts == main_alerts(Val(data), Val(risk_score), prev_state)
            r == NoRun
        IN
        IF ~IsNone(state) /\ ~loadOk
        THEN \* json.load raises: uncaught, the interpreter exits 1
             /\ run' = [r EXCEPT !.outcome = "load_error", !.exit = 1]
             /\ state' = state
        ELSE IF IsNone(data)
        THEN \* "Failed to fetch data": return
             /\ run' = [r EXCEPT !.outcome = "fetch_failed",
                                 !.prev_state = prev_state]
             /\ state' = state
        ELSE IF IsNone(risk_score)
        THEN \* "Failed to calculate risk score": return
             /\ run' = [r EXCEPT !.outcome = "no_score",
                                 !.prev_state = prev_state, !.data = data]
             /\ state' = state
        ELSE IF ~saveOk
        THEN \* open(STATE_FILE, 'w') raises after the sends: exit 1
             /\ run' = [r EXCEPT !.outcome = "save_error",
                                 !.prev_state = prev_state, !.data = data,
                                 !.risk_score = risk_score, !.alerts = alerts,
                                 !.events = SendAll(alerts, net, 1),
                                 !.exit = 1]
             /\ state' = state
        ELSE /\ run' = [r EXCEPT !.outcome = "complete",
                                 !.prev_state = prev_state, !.data = data,
                                 !.risk_score = risk_score, !.alerts = alerts,
                                 !.events = SendAll(alerts, net, 1)
                                                \o << <<"save">> >>]
             /\ state' = save_state(current_state(Val(data), Val(risk_score)))
    /\ UNCHANGED <<volVars, pureVars>>

MonInit ==
    /\ state = None
    /\ run = NoRun
    /\ clock = 0

\* The process has ended: its record is dropped, and the scheduler may start
\* the next run
Exit ==
    /\ run # NoRun
    /\ run' = NoRun
    /\ UNCHANGED <<state, clock, volVars, pureVars>>

----------------------------------------------------------------------------
(* Calls of the pure functions of monitor.py.  A call applies the function to
   two arguments a and b, so that its results on two inputs can be compared. *)

PureValues ==
    [t10y2y |-> {-150, -100, -50, 0, 50},
     hyOas  |-> {300, 400, 600, 800, 900},
     ismPmi |-> {4200, 4300, 4650, 5000, 5200},
     unrate |-> {350, 400, 550, 700, 750}]

PureFred ==
    {[t10y2y |-> Series(Some(t)), hyOas |-> Series(Some(h)),
      ismPmi |-> Series(Some(p)), unrate |-> Series(Some(u))] :
        t \in PureValues["t10y2y"], h \in PureValues["hyOas"],
        p \in PureValues["ismPmi"], u \in PureValues["unrate"]}

\* calculate_risk_score on a, and on a with indicator k set to v
ScoreCalls ==
    UNION {{[fn |-> "calculate_risk_score", a |-> f,
             b |-> [f EXCEPT ![k] = Series(Some(v))]] :
                f \in PureFred, v \in PureValues[k]} : k \in Indicators}

\* Scores 0.00, 0.05, ..., 1.00
ScoreGrid == {i * (ScoreDen \div 20) : i \in 0..20}

RegimeCalls ==
    {[fn |-> "get_regime_from_score", a |-> x, b |-> y] :
        x \in ScoreGrid, y \in ScoreGrid}

NoCall == [fn |-> "none", a |-> None, b |-> None]

CallCalculateRiskScore ==
    /\ call["fn"] = "calculate_risk_score"
    /\ IsNone(ret)
    /\ ret' = Some([a |-> calculate_risk_score(call["a"]),
                    b |-> calculate_risk_score(call["b"])])
    /\ UNCHANGED <<call, monVars, volVars>>

CallGetRegimeFromScore ==
    /\ call["fn"] = "get_regime_from_score"
    /\ IsNone(ret)
    /\ ret' = Some([a |-> get_regime_from_score(call["a"]),
                    b |-> get_regime_from_score(call["b"])])
    /\ UNCHANGED <<call, monVars, volVars>>

PureInit ==
    /\ \/ call \in ScoreCalls
       \/ call \in RegimeCalls
    /\ ret = None

PureIdle ==
    /\ call = NoCall
    /\ ret = None

----------------------------------------------------------------------------
(* Volume scripts: dicts in file order.  A dict is a list of <<key, value>>
   with distinct keys; dates are day numbers, whose order is that of the ISO
   date strings.  Trade values are integers in halves of a currency unit, so
   that int() has something to truncate. *)

Keys(d) == {d[i][1] : i \in DOMAIN d}

Has(d, k) == k \in Keys(d)

Lookup(d, k) == d[CHOOSE i \in DOMAIN d : d[i][1] = k][2]

\* d[k] = v
SetItem(d, k, v) ==
    IF Has(d, k)
    THEN [i \in DOMAIN d |-> IF d[i][1] = k THEN <<k, v>> ELSE d[i]]
    ELSE Append(d, <<k, v>>)

RECURSIVE SortedItems(_)
\* dict(sorted(d.items()))
SortedItems(d) ==
    IF d = <<>> THEN <<>>
    ELSE LET i == CHOOSE j \in DOMAIN d : \A l \in DOMAIN d : d[j][1] <= d[l][1]
         IN <<d[i]>> \o SortedItems(SubSeq(d, 1, i - 1) \o SubSeq(d, i + 1, Len(d)))

\* int(x) of a non-negative amount given in halves
IntOfHalves(h) == h \div 2

----------------------------------------------------------------------------
(* Volume scripts: inputs *)

\* The last KST day explored; the exchange's history begins at day 1
MaxToday == 2

\* --days
DaysChoices == {1, 201}

\* len(krw_markets) of a backfill run
BackfillMarketCounts == {0, 1, 2}

\* candle_acc_trade_price of the candles of one response, in halves
CandlePrices == {1, 3}

\* len(krw_markets) of a collection run
CollectMarketCounts == {0, 100, 101}

\* The sum of acc_trade_price_24h over the tickers of one batch, in halves
TickerSums == {1, 3}

batch_size == 100

NoJob == [script |-> "none", pc |-> "idle", exit |-> None, error |-> "none"]

CanStart == job["pc"] \in {"idle", "exited"}

----------------------------------------------------------------------------
(* backfill_upbit_history.py *)

\* The candles of one response: the c days up to day to, latest first, each
\* with trade price p
Candles(to, c, p) == [i \in 1..c |-> <<to - i + 1, p>>]

\* The outcomes of the request of get_daily_candles for batch batch_idx: it
\* raises (ok is FALSE, and get_daily_candles returns []), or it answers with at
\* most batch_days candles of the days up to the batch's end date that the
\* exchange has
CandleResponses(days, batch_idx) ==
    LET batch_days == Min2(200, days - batch_idx * 200)
        to == today - batch_idx * 200
    IN {[ok |-> FALSE, candles |-> <<>>]} \cup
       {[ok |-> TRUE, candles |-> Candles(to, c, p)] :
            c \in 0..Min2(batch_days, Max2(0, to)), p \in CandlePrices}

RECURSIVE Accumulate_assign(_, _, _)
\* Accumulate with = for +=
Accumulate_assign(daily_volumes, candles, i) ==
    IF i > Len(candles) THEN daily_volumes
    ELSE Accumulate_assign(SetItem(daily_volumes, candles[i][1], candles[i][2]),
                           candles, i + 1)

RECURSIVE Accumulate(_, _, _)
\* for candle in candles: daily_volumes[date_kst] += trade_price
Accumulate(daily_volumes, candles, i) ==
    IF i > Len(candles) THEN daily_volumes
    ELSE LET date_kst == candles[i][1]
             trade_price == candles[i][2]
             old == IF Has(daily_volumes, date_kst)
                    THEN Lookup(daily_volumes, date_kst) ELSE 0
         IN Accumulate(SetItem(daily_volumes, date_kst, old + trade_price),
                       candles, i + 1)

RECURSIVE MergeNew_overwrite(_, _, _)
\* MergeNew without the test that the date is not yet in the file
MergeNew_overwrite(existing_data, daily_volumes, i) ==
    IF i > Len(daily_volumes) THEN existing_data
    ELSE MergeNew_overwrite(SetItem(existing_data, daily_volumes[i][1],
                                    IntOfHalves(daily_volumes[i][2])),
                            daily_volumes, i + 1)

RECURSIVE MergeNew(_, _, _)
\* for date, volume in daily_volumes.items():
\*     if date not in existing_data: existing_data[date] = int(volume)
MergeNew(existing_data, daily_volumes, i) ==
    IF i > Len(daily_volumes) THEN existing_data
    ELSE LET date == daily_volumes[i][1]
             volume == daily_volumes[i][2]
         IN MergeNew(IF ~Has(existing_data, date)
                     THEN SetItem(existing_data, date, IntOfHalves(volume))
                     ELSE existing_data,
                     daily_volumes, i + 1)

\* The two loops of collect_historical_data have no fetch left
LoopDone(j) == j["krw_markets"] = 0 \/ j["batch_idx"] >= j["num_batches"]

\* main() up to the first candle request: get_krw_markets
BackfillStart ==
    /\ CanStart
    /\ \E marketsOk \in BOOLEAN, n \in BackfillMarketCounts, days \in DaysChoices :
        job' = IF ~marketsOk
               THEN [NoJob EXCEPT !.script = "backfill", !.pc = "exited",
                                  !.exit = Some(1), !.error = "markets"]
               ELSE [script |-> "backfill", pc |-> "fetch", exit |-> None,
                     error |-> "none", days |-> days, krw_markets |-> n,
                     num_batches |-> (days + 199) \div 200,
                     batch_idx |-> 0, market_idx |-> 0,
                     daily_volumes |-> <<>>, last |-> None,
                     failures |-> 0, fetched |-> 0]
    /\ UNCHANGED <<file, today, monVars, pureVars>>

\* One iteration of the market loop: get_daily_candles and the accumulation
BackfillFetch ==
    /\ job["script"] = "backfill" /\ job["pc"] = "fetch"
    /\ ~LoopDone(job)
    /\ \E resp \in CandleResponses(job["days"], job["batch_idx"]) :
        LET candles == resp["candles"]
            lastMarket == job["market_idx"] + 1 = job["krw_markets"]
        IN job' = [job EXCEPT
                     !.daily_volumes = Accumulate(job["daily_volumes"], candles, 1),
                     !.market_idx = IF lastMarket THEN 0 ELSE @ + 1,
                     !.batch_idx = IF lastMarket THEN @ + 1 ELSE @,
                     !.last = Some(resp),
                     !.failures = IF resp["ok"] THEN @ ELSE @ + 1,
                     !.fetched = @ + 1]
    /\ UNCHANGED <<file, today, monVars, pureVars>>

\* Steps 5 to 8 of collect_historical_data and the summary after them.
\* loadOk: the existing file can be read and parsed; saveOk: it can be opened
\* for writing.  min() of an empty dict raises after the save.
BackfillMerge ==
    /\ job["script"] = "backfill" /\ job["pc"] = "fetch"
    /\ LoopDone(job)
    /\ \E loadOk \in BOOLEAN, saveOk \in BOOLEAN :
        LET existing_data == IF IsNone(file) THEN <<>> ELSE Val(file)
            sorted_data ==
                SortedItems(MergeNew(existing_data, job["daily_volumes"], 1))
        IN
        IF ~IsNone(file) /\ ~loadOk
        THEN /\ job' = [job EXCEPT !.pc = "exited", !.exit = Some(1),
                                   !.error = "load"]
             /\ file' = file
        ELSE IF ~saveOk
        THEN /\ job' = [job EXCEPT !.pc = "exited", !.exit = Some(1),
                                   !.error = "save"]
             /\ file' = file
        ELSE IF sorted_data = <<>>
        THEN /\ job' = [job EXCEPT !.pc = "exited", !.exit = Some(1),
                                   !.error = "empty"]
             /\ file' = Some(sorted_data)
        ELSE /\ job' = [job EXCEPT !.pc = "exited", !.exit = Some(0)]
             /\ file' = Some(sorted_data)
    /\ UNCHANGED <<today, monVars, pureVars>>

----------------------------------------------------------------------------
(* collect_upbit_volume.py *)

\* main() up to the first ticker request: the market list request of
\* get_upbit_total_volume; when it raises, the function returns None and main
\* exits 1
CollectStart ==
    /\ CanStart
    /\ \E marketsOk \in BOOLEAN, n \in CollectMarketCounts :
        job' = IF ~marketsOk
               THEN [NoJob EXCEPT !.script = "collect", !.pc = "exited",
                                  !.exit = Some(1), !.error = "markets"]
               ELSE [script |-> "collect", pc |-> "ticker", exit |-> None,
                     error |-> "none", krw_markets |-> n, i |-> 0,
                     all_tickers |-> 0, last |-> None,
                     failures |-> 0, fetched |-> 0, load_failed |-> FALSE]
    /\ UNCHANGED <<file, today, monVars, pureVars>>

\* One iteration of the batch loop: a ticker request for up to batch_size
\* markets.  all_tickers is kept as the sum of the trade values fetched so far.
\* A request that raises ends get_upbit_total_volume with None: main exits 1.
CollectFetchBatch ==
    /\ job["script"] = "collect" /\ job["pc"] = "ticker"
    /\ job["i"] < job["krw_markets"]
    /\ \E resp \in {[ok |-> FALSE, sum |-> 0]}
                    \cup {[ok |-> TRUE, sum |-> x] : x \in TickerSums} :
        job' = IF ~resp["ok"]
               THEN [job EXCEPT !.pc = "exited", !.exit = Some(1),
                                !.error = "ticker", !.last = Some(resp),
                                !.failures = @ + 1, !.fetched = @ + 1]
               ELSE [job EXCEPT !.i = @ + batch_size,
                                !.all_tickers = @ + resp["sum"],
                                !.last = Some(resp), !.fetched = @ + 1]
    /\ UNCHANGED <<file, today, monVars, pureVars>>

\* load_history: {} when there is no file or it cannot be read
load_history(loadOk) ==
    IF IsNone(file) THEN <<>>
    ELSE IF ~loadOk THEN <<>>
    ELSE Val(file)

\* The rest of main(): the total, load_history, history[today], save_history
CollectSave ==
    /\ job["script"] = "collect" /\ job["pc"] = "ticker"
    /\ job["i"] >= job["krw_markets"]
    /\ \E loadOk \in BOOLEAN, saveOk \in BOOLEAN :
        LET total_volume == IntOfHalves(job["all_tickers"])
            history == SetItem(load_history(loadOk), today, total_volume)
        IN
        IF ~saveOk
        THEN /\ job' = [job EXCEPT !.pc = "exited", !.exit = Some(1),
                                   !.error = "save",
                                   !.load_failed = ~IsNone(file) /\ ~loadOk]
             /\ file' = file
        ELSE /\ job' = [job EXCEPT !.pc = "exited", !.exit = Some(0),
                                   !.load_failed = ~IsNone(file) /\ ~loadOk]
             /\ file' = Some(SortedItems(history))
    /\ UNCHANGED <<today, monVars, pureVars>>

----------------------------------------------------------------------------
(* Volume scripts: time and the specification *)

\* Midnight KST
Tick ==
    /\ today < MaxToday
    /\ today' = today + 1
    /\ UNCHANGED <<file, job, monVars, pureVars>>

VolInit ==
    /\ file = None
    /\ today = 1
    /\ job = NoJob

----------------------------------------------------------------------------
(* Specifications *)

\* Before any script has run: no state file, no history file, no call made
Init == MonInit /\ VolInit /\ PureIdle

\* monitor.py under its scheduler
Next == Main \/ Exit

Spec == Init /\ [][Next]_vars

\* The two volume scripts, run one at a time over the shared history file
VolNext ==
    \/ BackfillStart \/ BackfillFetch \/ BackfillMerge
    \/ CollectStart \/ CollectFetchBatch \/ CollectSave
    \/ Tick

SpecVol == Init /\ [][VolNext]_vars

\* The pure functions of monitor.py, each applied to inputs drawn from a grid
PureNext == CallCalculateRiskScore \/ CallGetRegimeFromScore

\* One call of one function, on arguments drawn from its grid
InitPure == MonInit /\ VolInit /\ PureInit

SpecPure == InitPure /\ [][PureNext]_vars

----------------------------------------------------------------------------
(* Claims about the volume scripts, checked under SpecVol *)

\* Every date of the file before the step is in the file after it
KeepsDates == ~IsNone(file') /\ Keys(Val(file)) \subseteq Keys(Val(file'))

\* Date d has the same value before and after the step
SameValue(d) == Lookup(Val(file'), d) = Lookup(Val(file), d)

\* C1 as stated: once a date has a recorded value in the history file, no later
\* step of a run of either volume script changes that date's value.
C1_NoRunChangesARecordedDate ==
    [][~IsNone(file) =>
        KeepsDates /\ \A d \in Keys(Val(file)) : SameValue(d)]_vars

\* C1 as amended: a backfill run never changes the value of a date already in
\* the file; a collection run changes no recorded date but today's, unless the
\* existing file could not be read, and then the saved file holds today's date
\* alone.
C1_OnlyCollectRewritesToday ==
    [][~IsNone(file) =>
        \/ /\ job'["script"] = "collect" /\ job'["pc"] = "exited"
           /\ job'["error"] = "none" /\ job'["load_failed"]
           /\ ~IsNone(file') /\ Keys(Val(file')) = {today}
        \/ /\ KeepsDates
           /\ \A d \in Keys(Val(file)) :
                \/ SameValue(d)
                \/ d = today /\ job'["script"] = "collect"
                     /\ ~job'["load_failed"]]_vars

\* C1 witness: a backfill has ended well on a file that held a date for which
\* it had summed another value than the recorded one.
C1_BackfillKeptRecordedValue ==
    /\ job["script"] = "backfill" /\ job["pc"] = "exited" /\ job["exit"] = Some(0)
    /\ \E d \in Keys(job["daily_volumes"]) :
        /\ Has(Val(file), d)
        /\ Lookup(Val(file), d) # IntOfHalves(Lookup(job["daily_volumes"], d))

\* A step in which a fetch of market data failed
FetchFailedStep ==
    /\ job["pc"] \in {"fetch", "ticker"}
    /\ job'["script"] = job["script"]
    /\ job'["fetched"] = job["fetched"] + 1
    /\ job'["failures"] = job["failures"] + 1

\* A step in which a fetch of market data succeeded
FetchedStep ==
    /\ job["pc"] \in {"fetch", "ticker"}
    /\ job'["script"] = job["script"]
    /\ job'["fetched"] = job["fetched"] + 1
    /\ job'["failures"] = job["failures"]

RECURSIVE SumValues(_, _)
\* The sum of the values of dict d from position i on
SumValues(d, i) == IF i > Len(d) THEN 0 ELSE d[i][2] + SumValues(d, i + 1)

\* C7 as stated: in either volume script, a failed fetch of market data does
\* not end the run: the run goes on to the remaining fetches with its sum kept.
C7_FailedFetchNeverEndsTheRun ==
    [][FetchFailedStep => job'["pc"] = job["pc"]]_vars

\* C7 as amended: in a backfill run a failed candle request skips that market:
\* the sums are kept, the run stays in its fetch loop until every market of every
\* batch has been requested, each answered request adds its candles' trade
\* values, and a run that ends well has persisted every date it summed.  In a
\* collection run a failed ticker request ends the run with exit status 1 and
\* the file untouched.
C7_BackfillSkipsCollectAborts ==
    /\ [][FetchFailedStep =>
            IF job["script"] = "backfill"
            THEN /\ job'["pc"] = "fetch"
                 /\ job'["daily_volumes"] = job["daily_volumes"]
            ELSE /\ job'["pc"] = "exited"
                 /\ job'["exit"] = Some(1)
                 /\ file' = file]_vars
    /\ [][FetchedStep /\ job["script"] = "backfill" =>
            SumValues(job'["daily_volumes"], 1) =
                SumValues(job["daily_volumes"], 1)
                    + SumValues(Val(job'["last"])["candles"], 1)]_vars
    /\ [](job["script"] = "backfill" /\ job["pc"] = "exited"
            /\ job["error"] # "markets" =>
                job["fetched"] = job["num_batches"] * job["krw_markets"])
    /\ [](job["script"] = "backfill" /\ job["pc"] = "exited"
            /\ job["exit"] = Some(0) =>
                \A d \in Keys(job["daily_volumes"]) : Has(Val(file), d))

\* C7 witness: a backfill run in which a candle request failed has ended well,
\* with the trade values of the answered requests summed and persisted.
C7_BackfillPersistedAfterFailure ==
    /\ job["script"] = "backfill" /\ job["pc"] = "exited" /\ job["exit"] = Some(0)
    /\ job["failures"] >= 1 /\ job["fetched"] > job["failures"]
    /\ job["daily_volumes"] # <<>>
    /\ \A d \in Keys(job["daily_volumes"]) : Has(Val(file), d)

----------------------------------------------------------------------------
(* Claims about monitor.main, checked under Spec *)

\* The run that just ended got as far as building its alerts
Scored == run["outcome"] \in {"complete", "save_error"}

\* The latest value of indicator k that the run fetched
Fetched(k) == Val(Last(Val(run["data"])["fred"][k]))

\* The snapshot of the run that just ended: its score, the band of that score,
\* the four latest indicator values and the time of the fetch, and no other key
IsSnapshotOfRun(s) ==
    /\ DOMAIN s = {"score", "regime", "indicators", "timestamp"}
    /\ s["score"] = Val(run["risk_score"])
    /\ s["regime"] = get_regime_from_score(Val(run["risk_score"]))
    /\ DOMAIN s["indicators"] = Indicators
    /\ \A k \in Indicators : s["indicators"][k] = Some(Fetched(k))
    /\ s["timestamp"] = clock

\* C5 as stated: after every run of main the state file holds exactly that
\* run's snapshot.
C5_EveryRunLeavesItsSnapshot ==
    run # NoRun =>
        /\ ~IsNone(run["risk_score"])
        /\ ~IsNone(state)
        /\ IsSnapshotOfRun(Val(state))

\* C5 as amended: after every run of main that computed a score and wrote the
\* state file, the file holds exactly that run's snapshot, with nothing of the
\* previous state; a run that did not get that far leaves the file as it
\* found it.
C5_CompletedRunLeavesItsSnapshot ==
    /\ run["outcome"] = "complete" =>
            ~IsNone(state) /\ IsSnapshotOfRun(Val(state))
    /\ run["outcome"] \in {"fetch_failed", "no_score", "save_error"} =>
            load_state = run["prev_state"]

\* C5 witness: a run has replaced a snapshot that differed from its own in the
\* score and in every indicator.
C5_SnapshotReplaced ==
    /\ run["outcome"] = "complete"
    /\ run["prev_state"] # EmptyDict
    /\ run["prev_state"]["score"] # Val(state)["score"]
    /\ \A k \in Indicators :
        run["prev_state"]["indicators"][k] # Val(state)["indicators"][k]

\* C6 as stated, for monitor.py: a run in which the fetch failed, the data
\* could not be reduced to a score or the state file could not be saved ends
\* with a nonzero exit status, and a run ends with status 0 only without such
\* an error.
C6_ErrorMeansNonzeroExit ==
    /\ run["outcome"] \in {"fetch_failed", "no_score", "save_error"} =>
            run["exit"] # 0
    /\ run # NoRun /\ run["exit"] = 0 => run["outcome"] = "complete"

\* The alerts of the run hold a Tier 2 message for indicator k
Tier2Alerted(k) ==
    \E i \in DOMAIN run["alerts"] :
        run["alerts"][i][1] = "tier2" /\ run["alerts"][i][2] = k

\* The previous snapshot has a value for indicator k
HasPrev(k) ==
    /\ "indicators" \in DOMAIN run["prev_state"]
    /\ k \in DOMAIN run["prev_state"]["indicators"]

Prev(k) == Val(run["prev_state"]["indicators"][k])

\* C8: the Tier 2 alert of each indicator is produced exactly when its current
\* value is on the critical side of its constant and its previous value is on
\* the safe side or missing, whatever the other three indicators are.
C8_Tier2IsFourIndependentPredicates ==
    Scored =>
        /\ Tier2Alerted("t10y2y") <=>
            Fetched("t10y2y") <= 0 /\ (HasPrev("t10y2y") => Prev("t10y2y") > 0)
        /\ Tier2Alerted("hyOas") <=>
            Fetched("hyOas") >= 600 /\ (HasPrev("hyOas") => Prev("hyOas") < 600)
        /\ Tier2Alerted("ismPmi") <=>
            Fetched("ismPmi") < 5000 /\ (HasPrev("ismPmi") => Prev("ismPmi") >= 5000)
        /\ Tier2Alerted("unrate") <=>
            Fetched("unrate") >= 450 /\ (HasPrev("unrate") => Prev("unrate") < 450)

\* C8 witness: with a previous snapshot, the HY OAS alert is produced at the
\* constant itself while the three other indicators, all critical now and
\* before, produce none.
C8_OneAlertAmongCriticalIndicators ==
    /\ Scored /\ HasPrev("hyOas")
    /\ Fetched("hyOas") = 600 /\ Tier2Alerted("hyOas")
    /\ Fetched("t10y2y") <= 0 /\ ~Tier2Alerted("t10y2y")
    /\ Fetched("ismPmi") < 5000 /\ ~Tier2Alerted("ismPmi")
    /\ Fetched("unrate") >= 450 /\ ~Tier2Alerted("unrate")

\* The alerts of the run hold a message of the given kind
Alerted(kind) ==
    \E i \in DOMAIN run["alerts"] : run["alerts"][i][1] = kind

\* C9: a run that computes a score produces the regime-change notification
\* exactly when a previous snapshot is stored and its regime is not the regime
\* of the current score.
C9_Tier1IffRegimeChanged ==
    Scored =>
        (Alerted("regime") <=>
            /\ run["prev_state"] # EmptyDict
            /\ run["prev_state"]["regime"]
                    # get_regime_from_score(Val(run["risk_score"])))

\* C9 witness: a run whose previous snapshot had score 0 moved to another
\* regime and produced the notification.
C9_RegimeChangeFromZeroNotified ==
    /\ Scored /\ Alerted("regime")
    /\ run["prev_state"] # EmptyDict
    /\ run["prev_state"]["score"] = 0

\* C10 as stated: the Risk-Off divergence warning is produced only for scores
\* classified riskOff, the Risk-On buy signal only for scores classified
\* riskOn, and never both.
C10_DivergenceAgreesWithRegime ==
    Scored =>
        /\ Alerted("divergence") =>
            get_regime_from_score(Val(run["risk_score"])) = "riskOff"
        /\ Alerted("buy") =>
            get_regime_from_score(Val(run["risk_score"])) = "riskOn"
        /\ ~(Alerted("divergence") /\ Alerted("buy"))

\* The run found a stored snapshot taken from the indicator values it fetched:
\* the run before it that wrote the file fetched identical indicator data
SameDataAsPrev ==
    /\ Scored
    /\ run["prev_state"] # EmptyDict
    /\ \A k \in Indicators :
        run["prev_state"]["indicators"][k] = Some(Fetched(k))

\* C11: a run of main on the indicator data of the run that wrote the stored
\* snapshot produces no regime-change alert and no threshold alert, and leaves
\* the score, regime and indicators of the state file as that run wrote them.
C11_RerunOnSameDataIsSilent ==
    SameDataAsPrev =>
        /\ ~Alerted("regime")
        /\ ~Alerted("tier2")
        /\ ~IsNone(state)
        /\ Val(state)["score"] = run["prev_state"]["score"]
        /\ Val(state)["regime"] = run["prev_state"]["regime"]
        /\ Val(state)["indicators"] = run["prev_state"]["indicators"]

\* C11 witness: a second run on data with all four indicators critical and a
\* score outside the riskOn band has rewritten the state file (the timestamp
\* is its own) and built no state-based alert.
C11_CriticalDataRerun ==
    /\ SameDataAsPrev
    /\ run["outcome"] = "complete"
    /\ Fetched("t10y2y") <= 0 /\ Fetched("hyOas") >= 600
    /\ Fetched("ismPmi") < 5000 /\ Fetched("unrate") >= 450
    /\ Val(state)["regime"] # "riskOn"
    /\ Val(state)["timestamp"] # run["prev_state"]["timestamp"]
    /\ ~Alerted("regime") /\ ~Alerted("tier2")

\* C12: a run of main in which the fetch fails or the score cannot be computed
\* builds no alert, sends nothing and leaves the state file as it was.
C12_FailedRunSendsNothingKeepsState ==
    [][run'["outcome"] \in {"fetch_failed", "no_score"} =>
            /\ state' = state
            /\ run'["alerts"] = <<>>
            /\ run'["events"] = <<>>]_vars

\* C12 witness: a run could not compute a score from a response with a null
\* or missing latest value while a riskOn snapshot was stored; the other
\* indicators of such a response are critical.
C12_NoScoreOverStoredSnapshot ==
    /\ run["outcome"] = "no_score"
    /\ ~IsNone(state)
    /\ Val(state)["regime"] = "riskOn"
    /\ run["events"] = <<>>

\* Tier 1 first, then Tier 2, then the divergence messages
AlertTier(msg) ==
    IF msg[1] = "regime" THEN 1 ELSE IF msg[1] = "tier2" THEN 2 ELSE 3

\* The alerts that the next run builds if it fetches the data of this run
\* again and reads the state file as it is now
NextAlertsOnSameData ==
    main_alerts(Val(run["data"]), Val(run["risk_score"]), load_state)

\* C13: a run that computes a score attempts one send per alert, in the order
\* Tier 1, Tier 2, divergence, before the state file is written; the file is
\* then written once with the run's snapshot whatever the sends returned, and
\* a next run on unchanged data builds no regime-change or threshold alert.
C13_AllSendsThenOneSave ==
    Scored =>
        LET n == Len(run["alerts"]) IN
        /\ \A i, j \in 1..n :
            i < j => AlertTier(run["alerts"][i]) <= AlertTier(run["alerts"][j])
        /\ Len(run["events"]) >= n
        /\ \A i \in 1..n :
            /\ run["events"][i][1] = "send"
            /\ run["events"][i][2] = run["alerts"][i]
        /\ run["outcome"] = "complete" =>
            /\ Len(run["events"]) = n + 1
            /\ run["events"][n + 1] = <<"save">>
            /\ ~IsNone(state) /\ IsSnapshotOfRun(Val(state))
            /\ \A i \in DOMAIN NextAlertsOnSameData :
                NextAlertsOnSameData[i][1] \notin {"regime", "tier2"}
        /\ run["outcome"] = "save_error" => Len(run["events"]) = n

\* C13 witness: a run built a regime-change alert, threshold alerts and the
\* divergence warning, every one of its sends failed, and the state file
\* holds its snapshot.
C13_SavedAfterFailedSends ==
    /\ run["outcome"] = "complete"
    /\ Alerted("regime") /\ Alerted("tier2") /\ Alerted("divergence")
    /\ \A i \in 1..Len(run["alerts"]) : run["events"][i][3] = "failed"
    /\ IsSnapshotOfRun(Val(state))

----------------------------------------------------------------------------
(* Claims about the pure functions, checked under SpecPure *)

Returned(fn) == call["fn"] = fn /\ ~IsNone(ret)

\* The latest value of indicator k in argument x of the call
Arg(x, k) == Val(Last(call[x][k]))

\* The result of the call on argument x
Result(x) == Val(ret)[x]

\* C2: on four non-null values calculate_risk_score returns a value in [0,1]
\* equal to 0.35 s(t10y2y) + 0.30 s(hyOas) + 0.20 s(ismPmi) + 0.15 s(unrate),
\* each sub-score s being in [0,1].
C2_ScoreIsWeightedSumInUnitInterval ==
    Returned("calculate_risk_score") =>
        LET st == score_t10y2y(Arg("a", "t10y2y"))
            sh == score_hyoas(Arg("a", "hyOas"))
            sp == score_ismpmi(Arg("a", "ismPmi"))
            su == score_unrate(Arg("a", "unrate"))
        IN /\ ~IsNone(Result("a"))
           /\ 0 <= Val(Result("a")) /\ Val(Result("a")) <= ScoreDen
           /\ \A x \in {st, sh, sp, su} : 0 <= x /\ x <= SubDen
           /\ Val(Result("a")) = 35 * st + 30 * sh + 20 * sp + 15 * su

\* C2 witness: a call with every indicator beyond the risky end of its range
\* has returned the score 1.
C2_ScoreOneBeyondTheRanges ==
    /\ Returned("calculate_risk_score")
    /\ Arg("a", "t10y2y") < -100 /\ Arg("a", "hyOas") > 800
    /\ Arg("a", "ismPmi") < 4300 /\ Arg("a", "unrate") > 700
    /\ Result("a") = Some(ScoreDen)

\* The defined range of each indicator, the direction in which the score moves
\* as the indicator rises, and the indicator's weight in hundredths
DefinedRange ==
    [t10y2y |-> [lo |-> -100, hi |-> 0,    rising |-> FALSE, weight |-> 35],
     hyOas  |-> [lo |-> 400,  hi |-> 800,  rising |-> TRUE,  weight |-> 30],
     ismPmi |-> [lo |-> 4300, hi |-> 5000, rising |-> FALSE, weight |-> 20],
     unrate |-> [lo |-> 400,  hi |-> 700,  rising |-> TRUE,  weight |-> 15]]

\* Arguments a and b of the call agree on every indicator but k
OnlyDiffers(k) ==
    \A j \in Indicators \ {k} : Arg("a", j) = Arg("b", j)

\* C3: with the other three indicators fixed the score never increases as
\* t10y2y or ismPmi rises and never decreases as hyOas or unrate rises; at or
\* beyond either end of its range an indicator contributes a constant, and the
\* two constants are 0 and the indicator's weight.
C3_ScoreMonotonicAndClampedPerIndicator ==
    Returned("calculate_risk_score") =>
        \A k \in Indicators :
            LET r == DefinedRange[k]
                va == Arg("a", k)
                vb == Arg("b", k)
                sa == Val(Result("a"))
                sb == Val(Result("b"))
            IN OnlyDiffers(k) /\ va <= vb =>
                /\ IF r["rising"] THEN sa <= sb ELSE sa >= sb
                /\ vb <= r["lo"] => sa = sb
                /\ va >= r["hi"] => sa = sb
                /\ va <= r["lo"] /\ vb >= r["hi"] =>
                    IF r["rising"]
                    THEN sb - sa = r["weight"] * SubDen
                    ELSE sa - sb = r["weight"] * SubDen

\* C3 witness: raising t10y2y inside its range, from -1.00 to -0.50, has
\* lowered the score, and raising hyOas from below its range to above it has
\* raised the score by the whole weight of hyOas.
C3_ScoreMovedWithOneIndicator ==
    /\ Returned("calculate_risk_score")
    /\ \/ /\ OnlyDiffers("t10y2y")
          /\ Arg("a", "t10y2y") = -100 /\ Arg("b", "t10y2y") = -50
          /\ Val(Result("b")) < Val(Result("a"))
       \/ /\ OnlyDiffers("hyOas")
          /\ Arg("a", "hyOas") = 300 /\ Arg("b", "hyOas") = 900
          /\ Val(Result("b")) - Val(Result("a")) = 30 * SubDen

\* The place of a regime in the order of the bands
Rank(regime) ==
    CASE regime = "riskOn" -> 1
      [] regime = "neutral" -> 2
      [] regime = "riskOff" -> 3
      [] regime = "crisis" -> 4

\* Score x lies in the band that REGIME_THRESHOLDS gives regime r: from min up
\* to, but not including, max; 1.00 itself belongs to the last band
InBand(x, r) ==
    /\ ScoreGe(x, REGIME_THRESHOLDS[r]["min"])
    /\ \/ ScoreLt(x, REGIME_THRESHOLDS[r]["max"])
       \/ r = "crisis" /\ ScoreLe(x, REGIME_THRESHOLDS[r]["max"])

\* C4: for a score in [0,1] get_regime_from_score returns the regime of the
\* documented band (riskOn below 0.30, neutral from 0.30, riskOff from 0.55,
\* crisis from 0.75), which is the one regime whose REGIME_THRESHOLDS band holds
\* the score; equal scores get equal regimes and a higher score never a lower
\* band.
C4_RegimeFollowsDocumentedBands ==
    Returned("get_regime_from_score") =>
        LET x == call["a"]
            y == call["b"]
        IN /\ Result("a") \in Regimes
           /\ x * 100 < 30 * ScoreDen => Result("a") = "riskOn"
           /\ 30 * ScoreDen <= x * 100 /\ x * 100 < 55 * ScoreDen =>
                Result("a") = "neutral"
           /\ 55 * ScoreDen <= x * 100 /\ x * 100 < 75 * ScoreDen =>
                Result("a") = "riskOff"
           /\ 75 * ScoreDen <= x * 100 => Result("a") = "crisis"
           /\ \A r \in Regimes : InBand(x, r) <=> r = Result("a")
           /\ x = y => Result("a") = Result("b")
           /\ x <= y => Rank(Result("a")) <= Rank(Result("b"))

\* C4 witness: the scores 0.30 and 0.75, each the lower end of a band, have
\* been classified neutral and crisis.
C4_BandEndsClassified ==
    /\ Returned("get_regime_from_score")
    /\ call["a"] * 100 = 30 * ScoreDen /\ Result("a") = "neutral"
    /\ call["b"] * 100 = 75 * ScoreDen /\ Result("b") = "crisis"

====
